---- MODULE Spec2Model ----
(***************************************************************************)
(* Model of kingming-sun/stock_hackthon (backend).                         *)
(*                                                                         *)
(*  - react_agent_service.StockAnalysisAgent: the native tool-calling loop *)
(*    of analyze_stock / answer_question and the per-symbol history store  *)
(*    (specifications Spec and SpecHistory);                               *)
(*  - langgraph_service.StockAnalysisAgent: the five-node analysis graph   *)
(*    and its scoring (specification SpecPipeline).                        *)
(*                                                                         *)
(* Both services are asyncio coroutines: a request runs without            *)
(* interruption between two awaits.  In the tool loop the only await is    *)
(* the reasoning-service call (asyncio.to_thread(llm.invoke)); the tools   *)
(* are called synchronously.  One action of Spec is therefore one such     *)
(* uninterrupted stretch of a request.                                     *)
(***************************************************************************)
EXTENDS Integers, Sequences, FiniteSets, TLC

VARIABLES
    \* ---- react_agent_service.StockAnalysisAgent ----
    histories,      \* self.histories: symbol -> list of messages
    pc,             \* per request: "idle" | "llm" (awaiting llm.invoke) | "done" | "error"
    kind,           \* per request: "analyze" | "chat" | "none"
    sym,            \* per request: symbol.upper()
    messages,       \* per request: the local transcript `messages`
    nhist,          \* per request: len(history) read at the start of answer_question
    steps,          \* per request: intermediate_steps / steps
    llmCalls,       \* per request: number of llm_with_tools.invoke calls issued
    toolExecs,      \* per request: number of _safe_call_tool executions
    lastToolCalls,  \* per request: len(tool_calls) of the latest assistant turn, -1 before
    final,          \* per request: final_answer / final
    raised,         \* per request: the reasoning-service call raised
    response,       \* per request: what the coroutine returned
    appended,       \* SpecHistory: turns appended so far per symbol
    written,        \* per symbol: every turn written back, in write-back order
    \* ---- langgraph_service.StockAnalysisAgent ----
    node,           \* the graph node to run next
    state,          \* the state the graph holds: what the next node receives
    nodeOutput,     \* the dict the latest node returned
    portfolio,      \* the caller's portfolio
    keepsUndeclared,\* whether the graph runtime hands undeclared keys to the next node
    executed,       \* the nodes run so far, in order
    failedStages,   \* the nodes whose internal work raised
    result,         \* what analyze_stock returned
    \* ---- react_agent_service.ResultParser ----
    text,           \* final_answer, a sequence of characters
    outputs,        \* the outputs of intermediate_steps, in order
    parsed,         \* what the parser made of it
    \* ---- main ----
    env,            \* which orchestrators can be constructed in this process
    active,         \* ACTIVE_AGENT
    attempted,      \* the orchestrators whose construction was attempted, in order
    served,         \* the requests answered so far, in order
    quoteSources,   \* what the provider answers to GLOBAL_QUOTE and TIME_SERIES_DAILY
    quoted          \* what get_quote returned

agentVars == <<histories, pc, kind, sym, messages, nhist, steps, llmCalls,
               toolExecs, lastToolCalls, final, raised, response>>
pipeVars  == <<node, state, nodeOutput, portfolio, keepsUndeclared, executed, failedStages,
               result>>
parserVars == <<text, outputs, parsed>>
quoteVars == <<quoteSources, quoted>>
serviceVars == <<env, active, attempted, served, quoteVars>>
vars      == <<agentVars, appended, written, pipeVars, parserVars, serviceVars>>

-----------------------------------------------------------------------------
(* Program constants *)

MaxIterationsOffByOne == 6 + 1
\* for _ in range(6)
MaxIterations == 6

\* merged[-50:]
HistoryCap == 50

(* Bounds of the model *)

\* the largest number of tool invocations one assistant turn requests
MaxToolCalls == 8
\* SpecHistory: how many turns are appended to the store in all
MaxAppends == 60

Symbols  == {"AAA", "BBB"}
Requests == {"r1", "r2"}

\* The symbols are interchangeable, so the first request is taken to be about
\* "AAA"; the second is about the same symbol or about the other one.
RequestSymbols(r) == IF r = "r1" THEN {"AAA"} ELSE Symbols

Min(a, b) == IF a < b THEN a ELSE b
Max(a, b) == IF a < b THEN b ELSE a

-----------------------------------------------------------------------------
(* Messages.  content is <<request, number, text>>: the number identifies  *)
(* the reasoning-service call (assistant turns) or the call id (tool       *)
(* turns), so two turns are equal only if they are the same turn.          *)

HumanMessage(r, no) ==
    [role |-> "human", content |-> <<r, no, "query">>,
     tool_calls |-> <<>>, tool_call_id |-> 0]

Content(r, n) == <<r, n, "answer">>

AIMessage(content, tool_calls) ==
    [role |-> "ai", content |-> content,
     tool_calls |-> tool_calls, tool_call_id |-> 0]

ToolMessage(r, output, call_id) ==
    [role |-> "tool", content |-> <<r, call_id, output>>,
     tool_calls |-> <<>>, tool_call_id |-> call_id]

-----------------------------------------------------------------------------
(* The tool registry and what the reasoning service may answer.            *)

\* get_all_tools()
ToolRegistry == {"get_stock_price", "get_news", "calculate_indicators", "get_company_info"}

\* a capability name that is not registered
UnknownTool == "get_dividends"

\* the opaque id of the i-th invocation of the n-th assistant turn
CallId(n, i) == (n - 1) * (MaxToolCalls + 1) + i

\* One requested invocation: the name, and whether executing it raises.
BatchCall(i) ==
    CASE i % 3 = 1 -> [name |-> "get_stock_price", fails |-> FALSE]
      [] i % 3 = 2 -> [name |-> UnknownTool, fails |-> FALSE]
      [] OTHER     -> [name |-> "calculate_indicators", fails |-> TRUE]

\* The answers of the reasoning service: no invocation, one, or a full batch
\* mixing a working tool, an unknown name and a tool that raises.
Replies ==
    { <<>>,
      << [name |-> "get_news", fails |-> FALSE] >>,
      [i \in 1..MaxToolCalls |-> BatchCall(i)] }

\* ai.tool_calls of the n-th assistant turn
ToolCalls(n, reply) ==
    [i \in 1..Len(reply) |-> [id |-> CallId(n, i), name |-> reply[i].name]]

call_tool_dropping_failure(call) == "report"
\* _safe_call_tool: the tool's report, or the text of the exception it raised
safe_call_tool(call) == IF call.fails THEN "tool_failed" ELSE "report"

\* output = self._safe_call_tool(tool_obj, **args) if tool_obj else "未知工具: name"
ToolOutput(call) ==
    IF call.name \in ToolRegistry THEN safe_call_tool(call) ELSE "unknown_tool"

\* the ToolMessage turns appended for one assistant turn, in request order
ToolResults(r, n, reply) ==
    [i \in 1..Len(reply) |-> ToolMessage(r, ToolOutput(reply[i]), CallId(n, i))]

\* the entries appended to intermediate_steps for one assistant turn
StepRecords(reply) ==
    [i \in 1..Len(reply) |-> [tool |-> reply[i].name, output |-> ToolOutput(reply[i])]]

ExecutionsOfAll(reply) == Len(reply)
\* how many invocations of a reply reach _safe_call_tool
Executions(reply) ==
    Cardinality({i \in 1..Len(reply) : reply[i].name \in ToolRegistry})

IsFinalTurnNever(tool_calls) == FALSE
\* if not tool_calls: final_answer = ai.content; break
IsFinalTurn(tool_calls) == tool_calls = <<>>

-----------------------------------------------------------------------------
(* The conversation history store *)

update_history_keep_oldest(h, symbol, new_messages) ==
    LET merged == h[symbol] \o new_messages
    IN  [h EXCEPT ![symbol] = SubSeq(merged, 1, Min(Len(merged), HistoryCap))]

\* _update_history: prev + new_messages, cut to merged[-50:]
update_history(h, symbol, new_messages) ==
    LET merged == h[symbol] \o new_messages
    IN  [h EXCEPT ![symbol] =
            SubSeq(merged, Max(1, Len(merged) - HistoryCap + 1), Len(merged))]

-----------------------------------------------------------------------------
(* Initial values *)

InitAgent ==
    /\ histories = [s \in Symbols |-> <<>>]
    /\ pc = [r \in Requests |-> "idle"]
    /\ kind = [r \in Requests |-> "none"]
    /\ sym = [r \in Requests |-> "AAA"]
    /\ messages = [r \in Requests |-> <<>>]
    /\ nhist = [r \in Requests |-> 0]
    /\ steps = [r \in Requests |-> <<>>]
    /\ llmCalls = [r \in Requests |-> 0]
    /\ toolExecs = [r \in Requests |-> 0]
    /\ lastToolCalls = [r \in Requests |-> -1]
    /\ final = [r \in Requests |-> <<r, 0, "">>]
    /\ raised = [r \in Requests |-> FALSE]
    /\ response = [r \in Requests |-> "none"]

InitHistoryGhost ==
    /\ appended = [s \in Symbols |-> 0]
    /\ written = [s \in Symbols |-> <<>>]

InitPipeIdle ==
    /\ node = "none"
    /\ state = <<>>
    /\ nodeOutput = <<>>
    /\ portfolio = <<>>
    /\ keepsUndeclared = FALSE
    /\ executed = <<>>
    /\ failedStages = {}
    /\ result = <<>>

\* the parser has not been given a text
NotParsed == [recommendation |-> "", confidence_score |-> [num |-> 0, den |-> 1]]

InitParserIdle ==
    /\ text = <<>>
    /\ outputs = <<>>
    /\ parsed = NotParsed

\* what a fetch may give: the request failed, or the JSON had nothing
Failed == [kind |-> "failed", price |-> 0, days |-> <<>>]
Nothing == [kind |-> "empty", price |-> 0, days |-> <<>>]

\* get_quote has not been called
NotQuoted == [symbol |-> "", price |-> -1, change |-> 0, change_percent |-> 0, volume |-> 0]

InitQuoteIdle ==
    /\ quoteSources = [primary |-> Nothing, fallback |-> Nothing]
    /\ quoted = NotQuoted

\* the process of main has not started
InitServiceIdle ==
    /\ env = [react |-> TRUE, langgraph |-> TRUE]
    /\ active = "unset"
    /\ attempted = <<>>
    /\ served = <<>>
    /\ InitQuoteIdle

-----------------------------------------------------------------------------
(* react_agent_service: analyze_stock and answer_question *)

StartAnalyzeFromHistory(r, s) ==
    /\ pc[r] = "idle"
    /\ pc' = [pc EXCEPT ![r] = "llm"]
    /\ kind' = [kind EXCEPT ![r] = "analyze"]
    /\ sym' = [sym EXCEPT ![r] = s]
    /\ messages' = [messages EXCEPT ![r] = histories[s] \o <<HumanMessage(r, 0)>>]
    /\ nhist' = [nhist EXCEPT ![r] = 0]
    /\ llmCalls' = [llmCalls EXCEPT ![r] = 1]
    /\ UNCHANGED <<histories, steps, toolExecs, lastToolCalls, final, raised,
                   response, appended, written, pipeVars, parserVars, serviceVars>>
\* analyze_stock up to its first await: messages = [HumanMessage(input_query)]
StartAnalyze(r, s) ==
    /\ pc[r] = "idle"
    /\ pc' = [pc EXCEPT ![r] = "llm"]
    /\ kind' = [kind EXCEPT ![r] = "analyze"]
    /\ sym' = [sym EXCEPT ![r] = s]
    /\ messages' = [messages EXCEPT ![r] = <<HumanMessage(r, 0)>>]
    /\ nhist' = [nhist EXCEPT ![r] = 0]
    /\ llmCalls' = [llmCalls EXCEPT ![r] = 1]
    /\ UNCHANGED <<histories, steps, toolExecs, lastToolCalls, final, raised,
                   response, appended, written, pipeVars, parserVars, serviceVars>>

\* answer_question up to its first await: messages = history + [HumanMessage(base)]
StartChat(r, s) ==
    /\ pc[r] = "idle"
    /\ pc' = [pc EXCEPT ![r] = "llm"]
    /\ kind' = [kind EXCEPT ![r] = "chat"]
    /\ sym' = [sym EXCEPT ![r] = s]
    /\ messages' = [messages EXCEPT ![r] = histories[s] \o <<HumanMessage(r, 0)>>]
    /\ nhist' = [nhist EXCEPT ![r] = Len(histories[s])]
    /\ llmCalls' = [llmCalls EXCEPT ![r] = 1]
    /\ UNCHANGED <<histories, steps, toolExecs, lastToolCalls, final, raised,
                   response, appended, written, pipeVars, parserVars, serviceVars>>

\* a chat that writes back all it produced, tool turns included
NewTurnsWholeTranscript(r, msgs, fin) ==
    SubSeq(msgs, nhist[r] + 1, Len(msgs)) \o <<AIMessage(fin, <<>>)>>

\* what the request writes back: analyze_stock the whole transcript and the
\* final answer, answer_question the question and the final answer
NewTurns(r, msgs, fin) ==
    IF kind[r] = "analyze"
    THEN msgs \o <<AIMessage(fin, <<>>)>>
    ELSE <<msgs[nhist[r] + 1], AIMessage(fin, <<>>)>>

\* the write-back made from the history the request read when it started
FinishFromSnapshot(r, msgs, fin) ==
    /\ final' = [final EXCEPT ![r] = fin]
    /\ histories' = update_history([histories EXCEPT ![sym[r]] = SubSeq(msgs, 1, nhist[r])],
                                   sym[r], NewTurns(r, msgs, fin))
    /\ written' = [written EXCEPT ![sym[r]] = @ \o NewTurns(r, msgs, fin)]
    /\ pc' = [pc EXCEPT ![r] = "done"]
    /\ response' = [response EXCEPT ![r] = "ok"]
    /\ messages' = [messages EXCEPT ![r] = <<>>]
    /\ steps' = [steps EXCEPT ![r] = <<>>]
    /\ UNCHANGED llmCalls

\* the code after the loop: parse, _update_history, return
Finish(r, msgs, fin) ==
    /\ final' = [final EXCEPT ![r] = fin]
    /\ histories' = update_history(histories, sym[r], NewTurns(r, msgs, fin))
    /\ written' = [written EXCEPT ![sym[r]] = @ \o NewTurns(r, msgs, fin)]
    /\ pc' = [pc EXCEPT ![r] = "done"]
    /\ response' = [response EXCEPT ![r] = "ok"]
    /\ messages' = [messages EXCEPT ![r] = <<>>]
    /\ steps' = [steps EXCEPT ![r] = <<>>]
    /\ UNCHANGED llmCalls

\* One pass of `for _ in range(6)`: the reasoning service answers the pending
\* call with an assistant turn carrying `reply`; the loop body runs up to the
\* next await, or through the end of the coroutine.
LLMReply(r, reply) ==
    /\ pc[r] = "llm"
    /\ LET n   == llmCalls[r]
           ai  == AIMessage(Content(r, n), ToolCalls(n, reply))
           msgs == messages[r] \o <<ai>> \o ToolResults(r, n, reply)
       IN  /\ lastToolCalls' = [lastToolCalls EXCEPT ![r] = Len(reply)]
           /\ IF IsFinalTurn(ai.tool_calls)
              THEN /\ Finish(r, messages[r], ai.content)
                   /\ UNCHANGED toolExecs
              ELSE /\ toolExecs' = [toolExecs EXCEPT ![r] = @ + Executions(reply)]
                   /\ IF n < MaxIterations
                      THEN /\ messages' = [messages EXCEPT ![r] = msgs]
                           /\ steps' = [steps EXCEPT ![r] = @ \o StepRecords(reply)]
                           /\ llmCalls' = [llmCalls EXCEPT ![r] = n + 1]
                           /\ UNCHANGED <<histories, written, pc, final, response>>
                      ELSE Finish(r, msgs, ai.content)
    /\ UNCHANGED <<kind, sym, nhist, raised, appended, pipeVars, parserVars, serviceVars>>

LLMRaiseKeepingTurns(r) ==
    /\ pc[r] = "llm"
    /\ pc' = [pc EXCEPT ![r] = "error"]
    /\ raised' = [raised EXCEPT ![r] = TRUE]
    /\ response' = [response EXCEPT ![r] = "error"]
    /\ histories' = update_history(histories, sym[r], messages[r])
    /\ messages' = [messages EXCEPT ![r] = <<>>]
    /\ steps' = [steps EXCEPT ![r] = <<>>]
    /\ UNCHANGED <<kind, sym, nhist, llmCalls, toolExecs,
                   lastToolCalls, final, appended, written, pipeVars, parserVars, serviceVars>>
\* llm_with_tools.invoke raises: `except Exception` returns the error record
LLMRaise(r) ==
    /\ pc[r] = "llm"
    /\ pc' = [pc EXCEPT ![r] = "error"]
    /\ raised' = [raised EXCEPT ![r] = TRUE]
    /\ response' = [response EXCEPT ![r] = "error"]
    /\ messages' = [messages EXCEPT ![r] = <<>>]
    /\ steps' = [steps EXCEPT ![r] = <<>>]
    /\ UNCHANGED <<histories, kind, sym, nhist, llmCalls, toolExecs,
                   lastToolCalls, final, appended, written, pipeVars, parserVars, serviceVars>>

Init == InitAgent /\ InitHistoryGhost /\ InitPipeIdle /\ InitParserIdle /\ InitServiceIdle

Next ==
    \E r \in Requests :
        \/ \E s \in RequestSymbols(r) : StartAnalyze(r, s)
        \/ \E s \in RequestSymbols(r) : StartChat(r, s)
        \/ \E reply \in Replies : LLMReply(r, reply)
        \/ LLMRaise(r)

Spec == Init /\ [][Next]_vars

-----------------------------------------------------------------------------
(* The history store on its own: _update_history called with any           *)
(* new_messages, the turns of a symbol numbered in the order appended.     *)

\* the longest new_messages: the transcript of a full analysis
MaxNew == MaxIterations * (MaxToolCalls + 1) + 2

FreshTurns(s, k) == [i \in 1..k |-> HumanMessage(s, appended[s] + i)]

AppendTurns(s, k) ==
    /\ appended[s] + k <= MaxAppends
    /\ histories' = update_history(histories, s, FreshTurns(s, k))
    /\ appended' = [appended EXCEPT ![s] = @ + k]
    /\ UNCHANGED <<written, pc, kind, sym, messages, nhist, steps, llmCalls, toolExecs,
                   lastToolCalls, final, raised, response, pipeVars, parserVars, serviceVars>>

NextHistory == \E s \in Symbols : \E k \in 1..MaxNew : AppendTurns(s, k)

SpecHistory == Init /\ [][NextHistory]_vars

-----------------------------------------------------------------------------
(* Claims about the tool loop and the history store *)

\* C1: the reasoning service is called at most 6 times per request; a request
\* whose every assistant turn requested tools ends after exactly 6 calls, as a
\* normal completion (an error only when the reasoning service itself raised),
\* and its final answer is the content of the 6th assistant turn.
C1_LoopBound ==
    \A r \in Requests :
        /\ llmCalls[r] <= 6
        /\ (pc[r] = "error" => raised[r])
        /\ (pc[r] \in {"done", "error"} /\ ~raised[r] /\ lastToolCalls[r] > 0
              => /\ pc[r] = "done"
                 /\ response[r] = "ok"
                 /\ llmCalls[r] = 6
                 /\ final[r] = Content(r, 6))

\* a request was forced to stop by the iteration ceiling
C1_Witness ==
    \E r \in Requests :
        pc[r] = "done" /\ lastToolCalls[r] > 0 /\ llmCalls[r] = 6 /\ kind[r] = "chat"

\* C2: the first assistant turn without tool invocations ends the loop: the
\* request is complete, its final answer is that turn's content, and from then
\* on the request issues no reasoning-service call and executes no tool.
C2_FinalTurnEndsLoop ==
    /\ [](\A r \in Requests :
            lastToolCalls[r] = 0
              => pc[r] = "done" /\ final[r] = Content(r, llmCalls[r]))
    /\ [][\A r \in Requests :
            lastToolCalls[r] = 0
              => /\ llmCalls'[r] = llmCalls[r]
                 /\ toolExecs'[r] = toolExecs[r]
                 /\ final'[r] = final[r]
                 /\ pc'[r] = pc[r]]_vars

\* a request ended by a turn without tool invocations after some tool turns,
\* while the other request was still running
C2_Witness ==
    \E r, q \in Requests :
        /\ lastToolCalls[r] = 0 /\ llmCalls[r] = 3 /\ toolExecs[r] > 0
        /\ pc[q] = "llm"

\* every assistant turn of a transcript is followed by exactly its tool
\* results, in the order requested and with the matching call ids, and every
\* tool result follows its assistant turn
WellFormed(msgs) ==
    /\ \A i \in 1..Len(msgs) :
          msgs[i].role = "ai" =>
            LET k == Len(msgs[i].tool_calls)
            IN  /\ i + k <= Len(msgs)
                /\ \A j \in 1..k :
                      /\ msgs[i + j].role = "tool"
                      /\ msgs[i + j].tool_call_id = msgs[i].tool_calls[j].id
                /\ (i + k + 1 <= Len(msgs) => msgs[i + k + 1].role # "tool")
    /\ \A p \in 1..Len(msgs) :
          msgs[p].role = "tool" =>
            \E i \in 1..(p - 1) :
                /\ msgs[i].role = "ai"
                /\ p - i <= Len(msgs[i].tool_calls)
                /\ \A q \in (i + 1)..p : msgs[q].role = "tool"

\* C3: in every transcript sent to the reasoning service each assistant turn
\* that requested k tools is followed immediately by exactly k tool results,
\* in request order with matching call ids, and no tool result is orphaned.
C3_TranscriptPairing ==
    \A r \in Requests : pc[r] = "llm" => WellFormed(messages[r])

\* C4: a symbol's history is exactly the most recent 50 of the turns appended
\* to it (all of them while there are fewer), oldest first.
C4_HistoryCap ==
    \A s \in Symbols :
        /\ Len(histories[s]) <= 50
        /\ Len(histories[s]) = Min(appended[s], 50)
        /\ \A i \in 1..Len(histories[s]) :
              histories[s][i] = HumanMessage(s, appended[s] - Len(histories[s]) + i)

\* 60 turns were appended to one symbol: turns 11..60 remain
C4_Witness ==
    /\ appended["AAA"] = 60
    /\ Len(histories["AAA"]) = 50
    /\ histories["AAA"][1] = HumanMessage("AAA", 11)
    /\ histories["AAA"][50] = HumanMessage("AAA", 60)

\* C5: while a chat is between its read of the symbol's history and its
\* write-back, nobody else writes that history: the snapshot the chat reasons
\* over is still the stored history.
C5_SerializedPerSymbol ==
    \A r \in Requests :
        pc[r] = "llm" /\ kind[r] = "chat"
          => SubSeq(messages[r], 1, nhist[r]) = histories[sym[r]]

-----------------------------------------------------------------------------
(* langgraph_service: the analysis graph.                                  *)
(*                                                                         *)
(* Numbers.  Scores are floats in the code; here they are exact integers   *)
(* counted in units of 1/(100 * PerCent), PerCent being the least common   *)
(* multiple of the feed lengths, so that the mean of a feed is exact.      *)
(* Prices, shares and costs are integers; P&L% is kept as the exact        *)
(* fraction pnl_num / pnl_den.                                             *)

\* what the NEWS_SENTIMENT feed may hold: the overall_sentiment_score of each
\* item, in hundredths
Feeds ==
    { <<>>, <<0>>, <<20>>, <<49>>, <<50>>, <<51>>, <<-49>>, <<-50>>, <<-51>>,
      <<20, -40>>,
      <<20, 20, 20, 20, 20, 20, 20, 20, 20, 20, 75>> }

FeedLengths == {Len(f) : f \in Feeds} \ {0}
DividedByAll(m) == \A n \in FeedLengths : m % n = 0
PerCent ==
    CHOOSE m \in 1..100 : DividedByAll(m) /\ \A k \in 1..(m - 1) : ~DividedByAll(k)
One == 100 * PerCent

\* what GLOBAL_QUOTE may hold: no quote at all (0), or "05. price"
NoQuote == 0
QuotePrices == {90, 100, 110, 111}

\* the RSI series of the provider, oldest date first; empty when the provider
\* sent no "Technical Analysis: RSI"
NoRsi == -1
RsiSeries == { <<>>, <<75>>, <<25, 75>>, <<50, 20>> }

\* The caller's portfolio, a JSON object: which keys it has, and its positions.
NullPortfolio == [null |-> TRUE, keys |-> {}, total_value |-> 0, positions |-> <<>>]
Portfolio(keys, total_value, positions) ==
    [null |-> FALSE, keys |-> keys, total_value |-> total_value, positions |-> positions]
Position(shares, avg_cost) == [shares |-> shares, avg_cost |-> avg_cost]
NoPositions == [s \in {} |-> Position(0, 0)]
Holding(s, shares, avg_cost) == [x \in {s} |-> Position(shares, avg_cost)]

Portfolios ==
    { NullPortfolio,
      Portfolio({}, 0, NoPositions),
      Portfolio({"total_value"}, 1000, NoPositions),
      Portfolio({"positions"}, 0, NoPositions),
      Portfolio({"total_value", "positions"}, 1000, NoPositions),
      Portfolio({"total_value", "positions"}, 1000, Holding("BBB", 10, 100)) }
    \cup { Portfolio({"total_value", "positions"}, 1000, Holding("AAA", sh, ac)) :
             sh \in {0, 10}, ac \in {0, 80, 100} }

\* a Portfolio with at least one position was supplied
HasPositions(p) == ~p.null /\ "positions" \in p.keys /\ DOMAIN p.positions # {}
\* the Portfolio holds a position in the symbol
Holds(p, symbol) == HasPositions(p) /\ symbol \in DOMAIN p.positions

(* The fields of AnalysisState.  A field is a record whose kind says       *)
(* whether it is still the empty container, a result, or {"error": ...}.   *)

EmptyStock  == [kind |-> "empty", has_quote |-> FALSE, price |-> 0]
ErrorStock  == [kind |-> "error", has_quote |-> FALSE, price |-> 0]
EmptyTech   == [kind |-> "empty", rsi |-> NoRsi, trend |-> "", strength |-> ""]
ErrorTech   == [kind |-> "error", rsi |-> NoRsi, trend |-> "", strength |-> ""]
EmptyNews   == [kind |-> "empty", items |-> 0, average_score |-> 0, overall_sentiment |-> ""]
ErrorNews   == [kind |-> "error", items |-> 0, average_score |-> 0, overall_sentiment |-> ""]
UnsetContext ==
    [kind |-> "unset", has_position |-> FALSE, position_size |-> 0, avg_cost |-> 0,
     current_price |-> 0, pnl_num |-> 0, pnl_den |-> 1]
ErrorContext == [UnsetContext EXCEPT !.kind = "error"]
EmptyResult ==
    [kind |-> "empty", recommendation |-> "", confidence_score |-> 0,
     technical |-> 0, sentiment |-> 0, portfolio |-> 0, total |-> 0,
     trend |-> "unknown", rsi |-> NoRsi, sentiment_label |-> "neutral",
     has_position |-> FALSE]
ErrorResult == [EmptyResult EXCEPT !.kind = "error"]

\* initial_state = AnalysisState(...) in analyze_stock
InitialState(symbol, p) ==
    [symbol |-> symbol,
     messages |-> <<"prompt">>,
     stock_data |-> EmptyStock,
     technical_data |-> EmptyTech,
     news_data |-> EmptyNews,
     portfolio_context |-> UnsetContext,
     analysis_result |-> EmptyResult,
     recommendation |-> "",
     confidence_score |-> 0,
     portfolio |-> p]

\* class AnalysisState(TypedDict) declares no portfolio_context.  A node gets
\* a dict built from the declared keys and returns a dict; whether a key the
\* schema does not declare reaches the next node is up to the graph runtime
\* (StateGraph(AnalysisState)), so both outcomes are modelled.
Carry(st) ==
    IF keepsUndeclared THEN st ELSE [st EXCEPT !.portfolio_context = UnsetContext]

Say(st, content) == [st EXCEPT !.messages = Append(@, content)]

\* _collect_stock_data
collect_stock_data(st, fail, quote) ==
    IF fail
    THEN [Say(st, "data_collection failed") EXCEPT !.stock_data = ErrorStock]
    ELSE Say([st EXCEPT !.stock_data =
                  [kind |-> "ok", has_quote |-> quote # NoQuote, price |-> quote]],
             "data_collection done")

\* "bullish" if latest_rsi and latest_rsi > 50 else "bearish"
Trend(latest_rsi) == IF latest_rsi # NoRsi /\ latest_rsi > 50 THEN "bullish" ELSE "bearish"

\* "strong" if latest_rsi and (latest_rsi > 70 or latest_rsi < 30) else "moderate"
Strength(latest_rsi) ==
    IF latest_rsi # NoRsi /\ latest_rsi # 0 /\ (latest_rsi > 70 \/ latest_rsi < 30)
    THEN "strong" ELSE "moderate"

\* latest_date = sorted(rsi_data.keys())[0]; latest_rsi = float(rsi_data[latest_date]...)
LatestRsi(series) == IF series = <<>> THEN NoRsi ELSE series[1]

\* the handler writing its error under the key of the stage before
perform_technical_analysis_wrong_key(st, fail, series) ==
    IF fail
    THEN Say([st EXCEPT !.stock_data = ErrorStock], "technical_analysis failed")
    ELSE Say([st EXCEPT !.technical_data =
                  [kind |-> "ok", rsi |-> LatestRsi(series),
                   trend |-> Trend(LatestRsi(series)),
                   strength |-> Strength(LatestRsi(series))]],
             "technical_analysis done")

\* _perform_technical_analysis
perform_technical_analysis(st, fail, series) ==
    IF fail
    THEN Say([st EXCEPT !.technical_data = ErrorTech], "technical_analysis failed")
    ELSE Say([st EXCEPT !.technical_data =
                  [kind |-> "ok", rsi |-> LatestRsi(series),
                   trend |-> Trend(LatestRsi(series)),
                   strength |-> Strength(LatestRsi(series))]],
             "technical_analysis done")

RECURSIVE SumScores(_, _)
\* total_score over news_data[:n]
SumScores(feed, n) == IF n = 0 THEN 0 ELSE feed[n] + SumScores(feed, n - 1)

\* avg_sentiment_score = total_score / len(news_data) if news_data else 0
AverageScore(feed) ==
    IF feed = <<>> THEN 0
    ELSE (SumScores(feed, Min(Len(feed), 10)) * PerCent) \div Len(feed)

\* "positive" if avg > 0.1 else "negative" if avg < -0.1 else "neutral"
OverallSentiment(avg) ==
    IF 10 * avg > One THEN "positive"
    ELSE IF 10 * avg < -One THEN "negative" ELSE "neutral"

\* _analyze_news_sentiment
analyze_news_sentiment(st, fail, feed) ==
    IF fail
    THEN Say([st EXCEPT !.news_data = ErrorNews], "news_sentiment_analysis failed")
    ELSE Say([st EXCEPT !.news_data =
                  [kind |-> "ok", items |-> Min(Len(feed), 10),
                   average_score |-> AverageScore(feed),
                   overall_sentiment |-> OverallSentiment(AverageScore(feed))]],
             "news_sentiment_analysis done")

\* _should_analyze_portfolio: portfolio is not None and len(portfolio) > 0
should_analyze_portfolio(st) ==
    ~st.portfolio.null /\ Cardinality(st.portfolio.keys) > 0

\* float(state["stock_data"].get("quote", {}).get("05. price", 0))
CurrentPrice(st) ==
    IF st.stock_data.kind = "ok" /\ st.stock_data.has_quote THEN st.stock_data.price ELSE 0

\* the work of _analyze_portfolio_context raises: the division by
\* avg_cost * position_size when avg_cost > 0 and position_size = 0
PortfolioRaises(st) ==
    /\ "positions" \in st.portfolio.keys
    /\ st.symbol \in DOMAIN st.portfolio.positions
    /\ st.portfolio.positions[st.symbol].avg_cost > 0
    /\ st.portfolio.positions[st.symbol].shares = 0

\* _analyze_portfolio_context
analyze_portfolio_context(st, fail) ==
    IF fail \/ PortfolioRaises(st)
    THEN Say([st EXCEPT !.portfolio_context = ErrorContext], "portfolio_analysis failed")
    ELSE IF "positions" \in st.portfolio.keys /\ st.symbol \in DOMAIN st.portfolio.positions
    THEN LET pos == st.portfolio.positions[st.symbol]
             current_price == CurrentPrice(st)
             unrealized_pnl == (current_price - pos.avg_cost) * pos.shares
         IN  Say([st EXCEPT !.portfolio_context =
                      [kind |-> "ok", has_position |-> TRUE,
                       position_size |-> pos.shares, avg_cost |-> pos.avg_cost,
                       current_price |-> current_price,
                       pnl_num |-> IF pos.avg_cost > 0 THEN unrealized_pnl * 100 ELSE 0,
                       pnl_den |-> IF pos.avg_cost > 0 THEN pos.avg_cost * pos.shares ELSE 1]],
                 "portfolio_analysis done")
    ELSE Say([st EXCEPT !.portfolio_context = [UnsetContext EXCEPT !.kind = "ok"]],
             "portfolio_analysis done")

\* tech_score
TechScore(st) ==
    IF st.technical_data.kind = "ok" /\ st.technical_data.trend = "bullish" THEN One
    ELSE IF st.technical_data.kind = "ok" /\ st.technical_data.trend = "bearish" THEN -One
    ELSE 0

\* sentiment_score = sentiment.get("average_score", 0)
SentimentScore(st) == IF st.news_data.kind = "ok" THEN st.news_data.average_score ELSE 0

\* portfolio_score: -0.5 above +10 %, +0.5 below -10 %, of a held position
PortfolioScore(st) ==
    LET c == st.portfolio_context
    IN  IF c.kind = "ok" /\ c.has_position
        THEN IF c.pnl_num > 10 * c.pnl_den THEN -(One \div 2)
             ELSE IF c.pnl_num < -10 * c.pnl_den THEN One \div 2
             ELSE 0
        ELSE 0

Abs(x) == IF x < 0 THEN -x ELSE x

RecommendationInclusive(total) ==
    IF 2 * total >= One THEN "BUY" ELSE IF 2 * total <= -One THEN "SELL" ELSE "HOLD"
\* total > 0.5: BUY, total < -0.5: SELL, else HOLD
Recommendation(total) ==
    IF 2 * total > One THEN "BUY" ELSE IF 2 * total < -One THEN "SELL" ELSE "HOLD"

ConfidenceUnclamped(total) ==
    IF Recommendation(total) = "HOLD" THEN (6 * One) \div 10 ELSE Abs(total)
\* min(0.9, abs(total)) for BUY and SELL, 0.6 for HOLD
Confidence(total) ==
    IF Recommendation(total) = "HOLD" THEN (6 * One) \div 10
    ELSE Min((9 * One) \div 10, Abs(total))

\* _synthesize_recommendation
synthesize_recommendation(st, fail) ==
    IF fail
    THEN Say([st EXCEPT !.analysis_result = ErrorResult], "synthesize_recommendation failed")
    ELSE LET total == TechScore(st) + SentimentScore(st) + PortfolioScore(st)
         IN  Say([st EXCEPT
                    !.analysis_result =
                        [kind |-> "ok",
                         recommendation |-> Recommendation(total),
                         confidence_score |-> Confidence(total),
                         technical |-> TechScore(st),
                         sentiment |-> SentimentScore(st),
                         portfolio |-> PortfolioScore(st),
                         total |-> total,
                         trend |-> IF st.technical_data.kind = "ok"
                                   THEN st.technical_data.trend ELSE "unknown",
                         rsi |-> st.technical_data.rsi,
                         sentiment_label |-> IF st.news_data.kind = "ok"
                                             THEN st.news_data.overall_sentiment
                                             ELSE "neutral",
                         has_position |-> st.portfolio_context.kind = "ok"
                                          /\ st.portfolio_context.has_position],
                    !.recommendation = Recommendation(total),
                    !.confidence_score = Confidence(total)],
                 "synthesize_recommendation done")

(* The graph of _build_analysis_graph: one action per node, each followed  *)
(* by the edge that leaves it.                                             *)

Nodes ==
    {"data_collection", "technical_analysis", "news_sentiment_analysis",
     "portfolio_analysis", "synthesize_recommendation"}

HasHandlerButSynthesis(name) == name \in Nodes \ {"synthesize_recommendation"}
\* every node wraps its work in try: ... except Exception as e:
HasHandler(name) == name \in Nodes

\* the response of analyze_stock: the fields of the final state, or
\* {symbol, error, timestamp} when graph.ainvoke raised
Response(st) ==
    [error |-> FALSE,
     symbol |-> st.symbol,
     recommendation |-> st.recommendation,
     confidence_score |-> st.confidence_score,
     has_key_metrics |-> st.analysis_result.kind = "ok",
     has_position |-> st.analysis_result.has_position,
     messages |-> st.messages]
ErrorResponse(st) ==
    [error |-> TRUE, symbol |-> st.symbol, recommendation |-> "",
     confidence_score |-> 0, has_key_metrics |-> FALSE, has_position |-> FALSE,
     messages |-> <<>>]

\* A node ran.  Its work either succeeded or was caught by its handler: the
\* runtime takes the dict it returned and follows the edge to `next`.  An
\* exception no handler catches leaves graph.ainvoke and is caught by
\* analyze_stock, which returns the error record.
Ran(name, out, fail, next) ==
    /\ executed' = Append(executed, name)
    /\ failedStages' = IF fail THEN failedStages \cup {name} ELSE failedStages
    /\ IF fail /\ ~HasHandler(name)
       THEN /\ node' = "returned"
            /\ result' = ErrorResponse(state)
            /\ UNCHANGED <<state, nodeOutput>>
       ELSE /\ nodeOutput' = out
            /\ state' = Carry(out)
            /\ node' = next
            /\ UNCHANGED result
    /\ UNCHANGED <<portfolio, keepsUndeclared, agentVars, appended, written, parserVars, serviceVars>>

\* analyze_stock: build initial_state, graph.ainvoke: START -> data_collection
AnalyzeStock(p) ==
    /\ node = "idle"
    /\ portfolio' = p
    /\ state' = InitialState("AAA", p)
    /\ nodeOutput' = InitialState("AAA", p)
    /\ node' = "data_collection"
    /\ UNCHANGED <<keepsUndeclared, executed, failedStages, result, agentVars, appended, written, parserVars, serviceVars>>

DataCollection(fail, quote) ==
    /\ node = "data_collection"
    /\ Ran("data_collection", collect_stock_data(state, fail, quote), fail,
           "technical_analysis")

TechnicalAnalysis(fail, series) ==
    /\ node = "technical_analysis"
    /\ Ran("technical_analysis", perform_technical_analysis(state, fail, series), fail,
           "news_sentiment_analysis")

\* add_conditional_edges("news_sentiment_analysis", _should_analyze_portfolio, ...)
AfterNews(st) ==
    IF should_analyze_portfolio(st) THEN "portfolio_analysis" ELSE "synthesize_recommendation"

NewsSentimentAnalysis(fail, feed) ==
    /\ node = "news_sentiment_analysis"
    /\ LET out == analyze_news_sentiment(state, fail, feed)
       IN  Ran("news_sentiment_analysis", out, fail, AfterNews(out))

PortfolioAnalysis(fail) ==
    /\ node = "portfolio_analysis"
    /\ Ran("portfolio_analysis", analyze_portfolio_context(state, fail),
           fail \/ PortfolioRaises(state), "synthesize_recommendation")

SynthesizeRecommendation(fail) ==
    /\ node = "synthesize_recommendation"
    /\ Ran("synthesize_recommendation", synthesize_recommendation(state, fail), fail, "END")

\* analyze_stock after graph.ainvoke returned: the response dict
Return ==
    /\ node = "END"
    /\ node' = "returned"
    /\ result' = Response(state)
    /\ UNCHANGED <<state, nodeOutput, portfolio, keepsUndeclared, executed, failedStages,
                   agentVars, appended, written, parserVars, serviceVars>>

InitPipeline ==
    /\ InitAgent /\ InitHistoryGhost /\ InitParserIdle /\ InitServiceIdle
    /\ node = "idle"
    /\ state = InitialState("AAA", NullPortfolio)
    /\ nodeOutput = InitialState("AAA", NullPortfolio)
    /\ portfolio = NullPortfolio
    /\ keepsUndeclared \in BOOLEAN
    /\ executed = <<>>
    /\ failedStages = {}
    /\ result = ErrorResponse(InitialState("AAA", NullPortfolio))

NextPipeline ==
    \/ \E p \in Portfolios : AnalyzeStock(p)
    \/ \E fail \in BOOLEAN : \E quote \in QuotePrices \cup {NoQuote} : DataCollection(fail, quote)
    \/ \E fail \in BOOLEAN : \E series \in RsiSeries : TechnicalAnalysis(fail, series)
    \/ \E fail \in BOOLEAN : \E feed \in Feeds : NewsSentimentAnalysis(fail, feed)
    \/ \E fail \in BOOLEAN : PortfolioAnalysis(fail)
    \/ \E fail \in BOOLEAN : SynthesizeRecommendation(fail)
    \/ Return

SpecPipeline == InitPipeline /\ [][NextPipeline]_vars

-----------------------------------------------------------------------------
(* Claims about the analysis graph *)

Range(seq) == {seq[i] : i \in 1..Len(seq)}
Last(seq) == seq[Len(seq)]

\* C6: with a null Portfolio or one whose positions mapping is empty, the
\* portfolio_analysis node never runs and portfolio_context is never written:
\* the graph goes from news_sentiment_analysis to synthesize_recommendation.
C6_NoPortfolioStageWithoutPositions ==
    (node # "idle" /\ ~HasPositions(portfolio))
      => /\ node # "portfolio_analysis"
         /\ "portfolio_analysis" \notin Range(executed)
         /\ nodeOutput.portfolio_context = UnsetContext

\* the order of the nodes of a run, as the claim has it
ClaimedOrder(p) ==
    <<"data_collection", "technical_analysis", "news_sentiment_analysis">>
    \o (IF HasPositions(p) THEN <<"portfolio_analysis">> ELSE <<>>)
    \o <<"synthesize_recommendation">>

\* C7: a run executes data_collection, technical_analysis,
\* news_sentiment_analysis, portfolio_analysis only when a Portfolio with at
\* least one position was supplied, then synthesize_recommendation, each once
\* and in that order, and then ends.
C7_StageOrder ==
    node # "idle"
      => /\ Len(executed) <= Len(ClaimedOrder(portfolio))
         /\ executed = SubSeq(ClaimedOrder(portfolio), 1, Len(executed))
         /\ (node \in {"END", "returned"} => executed = ClaimedOrder(portfolio))
         /\ (node \in Nodes => node = ClaimedOrder(portfolio)[Len(executed) + 1])

\* the field a node owns, in a state dict
OwnField(st, name) ==
    CASE name = "data_collection" -> st.stock_data.kind
      [] name = "technical_analysis" -> st.technical_data.kind
      [] name = "news_sentiment_analysis" -> st.news_data.kind
      [] name = "portfolio_analysis" -> st.portfolio_context.kind
      [] OTHER -> st.analysis_result.kind

\* the nodes the graph routes a run through
RoutedOrder(st) ==
    <<"data_collection", "technical_analysis", "news_sentiment_analysis">>
    \o (IF should_analyze_portfolio(st) THEN <<"portfolio_analysis">> ELSE <<>>)
    \o <<"synthesize_recommendation">>

\* C8: a node whose work fails returns {error} in its own field and one more
\* message instead of raising; the fields of the declared schema keep the
\* error; the failure changes nothing of the route: every later node runs and
\* the run ends with the response of a completed run, not the error record.
C8_FailuresContained ==
    node # "idle"
      => /\ executed = SubSeq(RoutedOrder(state), 1, Len(executed))
         /\ Len(state.messages) = 1 + Len(executed)
         /\ \A name \in failedStages :
               name # "portfolio_analysis" => OwnField(state, name) = "error"
         /\ (executed # <<>> /\ Last(executed) \in failedStages
               => /\ OwnField(nodeOutput, Last(executed)) = "error"
                  /\ Len(nodeOutput.messages) = 1 + Len(executed))
         /\ (node \in {"END", "returned"} => executed = RoutedOrder(state))
         /\ (node = "returned" => ~result.error /\ Len(result.messages) = 1 + Len(executed))

\* all five nodes failed and the run still returned a response
C8_Witness ==
    /\ node = "returned"
    /\ failedStages = Nodes
    /\ ~result.error

\* C9: total > 0.5 gives BUY and total < -0.5 gives SELL, both with
\* confidence min(0.9, |total|); every other total, +0.5 and -0.5 included,
\* gives HOLD with confidence 0.6.
C9_Classification ==
    state.analysis_result.kind = "ok"
      => LET a == state.analysis_result
             t == a.total
             m == IF t < 0 THEN -t ELSE t
         IN  /\ a.total = a.technical + a.sentiment + a.portfolio
             /\ state.recommendation = a.recommendation
             /\ state.confidence_score = a.confidence_score
             /\ (100 * t > 50 * One
                   => a.recommendation = "BUY"
                      /\ 100 * a.confidence_score = (IF 100 * m < 90 * One THEN 100 * m ELSE 90 * One))
             /\ (100 * t < -50 * One
                   => a.recommendation = "SELL"
                      /\ 100 * a.confidence_score = (IF 100 * m < 90 * One THEN 100 * m ELSE 90 * One))
             /\ (100 * t <= 50 * One /\ 100 * t >= -50 * One
                   => a.recommendation = "HOLD" /\ 100 * a.confidence_score = 60 * One)

\* a total of exactly +0.5 (bullish trend, sentiment -0.5) classified HOLD
C9_Witness ==
    /\ state.analysis_result.kind = "ok"
    /\ 2 * state.analysis_result.total = One
    /\ state.analysis_result.technical = One
    /\ state.recommendation = "HOLD"

\* the unrealized P&L% of the position the Portfolio holds in the symbol, at
\* the price the run collected, compared with a percentage
PnlAbove(p, symbol, price, pct) ==
    LET pos == p.positions[symbol]
    IN  pos.avg_cost > 0
        /\ (price - pos.avg_cost) * pos.shares * 100 > pct * pos.avg_cost * pos.shares
PnlBelow(p, symbol, price, pct) ==
    LET pos == p.positions[symbol]
    IN  pos.avg_cost > 0
        /\ (price - pos.avg_cost) * pos.shares * 100 < pct * pos.avg_cost * pos.shares

\* the portfolio_analysis node ran and its work did not fail
PortfolioStageDone ==
    "portfolio_analysis" \in Range(executed) /\ "portfolio_analysis" \notin failedStages

\* C10: the portfolio score is -0.5 exactly when a position is held and its
\* P&L% is above 10, +0.5 exactly when one is held and its P&L% is below -10,
\* and 0 otherwise (P&L% of exactly +10 or -10, no position, portfolio stage
\* not run or failed).
C10_PortfolioScore ==
    state.analysis_result.kind = "ok"
      => LET score == state.analysis_result.portfolio
             held == Holds(portfolio, "AAA") /\ PortfolioStageDone
             price == CurrentPrice(state)
         IN  /\ score \in {-(One \div 2), 0, One \div 2}
             /\ (score = -(One \div 2) <=> held /\ PnlAbove(portfolio, "AAA", price, 10))
             /\ (score = One \div 2 <=> held /\ PnlBelow(portfolio, "AAA", price, -10))

\* C11: when the portfolio stage runs without an outside failure for a held
\* position (shares >= 0, avg_cost >= 0), it records has_position = true and
\* pnl_percentage = (current_price - avg_cost) * shares / (avg_cost * shares)
\* * 100 when avg_cost > 0, 0 when avg_cost = 0; shares = 0 included.
C11_PnlPercentage ==
    [][(PortfolioAnalysis(FALSE) /\ Holds(portfolio, "AAA"))
         => LET pos == portfolio.positions["AAA"]
                c == nodeOutput'.portfolio_context
            IN  /\ c.kind = "ok"
                /\ c.has_position
                /\ c.position_size = pos.shares
                /\ c.avg_cost = pos.avg_cost
                /\ (pos.avg_cost = 0 => c.pnl_num = 0)
                /\ (pos.avg_cost > 0 /\ pos.shares > 0
                      => /\ c.pnl_den > 0
                         /\ c.pnl_num * (pos.avg_cost * pos.shares)
                              = (CurrentPrice(state) - pos.avg_cost) * pos.shares * 100
                                  * c.pnl_den)]_vars

\* the run of the first scenario: symbol AAA, 10 shares held at 80, and so far
\* a quote of 100, a bullish trend and a sentiment mean of 0.2, no node failed
ScenarioHeldBullish ==
    /\ portfolio = Portfolio({"total_value", "positions"}, 1000, Holding("AAA", 10, 80))
    /\ failedStages = {}
    /\ state.stock_data.kind = "ok" => state.stock_data.has_quote /\ state.stock_data.price = 100
    /\ state.technical_data.kind = "ok" => state.technical_data.trend = "bullish"
    /\ state.news_data.kind = "ok" => 5 * state.news_data.average_score = One

\* C12: symbol AAA, price 100, 10 shares at avg_cost 80, bullish trend,
\* sentiment mean 0.2: the portfolio stage computes P&L% = 25, the scores are
\* technical +1, sentiment 0.2, portfolio -0.5, total 0.7, and the result
\* returned is BUY with confidence 0.7.
C12_ScenarioBuy ==
    ScenarioHeldBullish
      => /\ (executed # <<>> /\ Last(executed) = "portfolio_analysis"
               => /\ nodeOutput.portfolio_context.has_position
                  /\ nodeOutput.portfolio_context.pnl_num
                       = 25 * nodeOutput.portfolio_context.pnl_den)
         /\ (node = "returned"
               => /\ state.analysis_result.technical = One
                  /\ 5 * state.analysis_result.sentiment = One
                  /\ 2 * state.analysis_result.portfolio = -One
                  /\ 10 * state.analysis_result.total = 7 * One
                  /\ ~result.error
                  /\ result.recommendation = "BUY"
                  /\ 10 * result.confidence_score = 7 * One)

\* the run of the second scenario: no Portfolio, and so far a bearish trend
\* and a sentiment mean of 0, no node failed
ScenarioNoPortfolioBearish ==
    /\ node # "idle"
    /\ portfolio = NullPortfolio
    /\ failedStages = {}
    /\ state.technical_data.kind = "ok" => state.technical_data.trend = "bearish"
    /\ state.news_data.kind = "ok" => state.news_data.average_score = 0

\* C13: no Portfolio, bearish trend, sentiment mean 0.0: the portfolio stage
\* is skipped, the total is -1.0 (technical -1, sentiment 0, portfolio 0) and
\* the result returned is SELL with confidence 0.9.
C13_ScenarioSell ==
    ScenarioNoPortfolioBearish
      => /\ node # "portfolio_analysis"
         /\ "portfolio_analysis" \notin Range(executed)
         /\ (node = "returned"
               => /\ state.analysis_result.technical = -One
                  /\ state.analysis_result.sentiment = 0
                  /\ state.analysis_result.portfolio = 0
                  /\ state.analysis_result.total = -One
                  /\ ~result.error
                  /\ result.recommendation = "SELL"
                  /\ 10 * result.confidence_score = 9 * One)

\* the second scenario ran to its end, on an RSI of 25 and a feed of one
\* neutral item
C13_Witness ==
    /\ ScenarioNoPortfolioBearish
    /\ node = "returned"
    /\ state.technical_data.rsi = 25
    /\ state.news_data.items = 1
    /\ result.recommendation = "SELL"

-----------------------------------------------------------------------------
(* react_agent_service.ResultParser.                                       *)
(*                                                                         *)
(* A text is a sequence of characters.  A character is a one-letter string *)
(* for ASCII; a CJK character is named by its pinyin ("mai4" is U+5356).   *)

\* the small letter of each capital
ToLower ==
    LET upper == <<"A", "B", "C", "D", "E", "F", "G", "H", "I", "J", "K", "L", "M",
                   "N", "O", "P", "Q", "R", "S", "T", "U", "V", "W", "X", "Y", "Z">>
        lower == <<"a", "b", "c", "d", "e", "f", "g", "h", "i", "j", "k", "l", "m",
                   "n", "o", "p", "q", "r", "s", "t", "u", "v", "w", "x", "y", "z">>
    IN  [c \in {upper[i] : i \in 1..26} |-> lower[CHOOSE i \in 1..26 : upper[i] = c]]

\* str.lower(), one character
LowerChar(c) == IF c \in DOMAIN ToLower THEN ToLower[c] ELSE c

\* text.lower()
Lower(s) == [i \in 1..Len(s) |-> LowerChar(s[i])]

\* keyword in text
Contains(s, keyword) ==
    \E i \in 0..(Len(s) - Len(keyword)) : \A j \in 1..Len(keyword) : s[i + j] = keyword[j]

\* buy_keywords
buy_keywords ==
    { <<"mai3", "ru4">>, <<"b", "u", "y">>, <<"jian4", "yi4", "gou4", "mai3">>,
      <<"ke3", "yi3", "mai3">>, <<"shi4", "he2", "mai3", "ru4">>,
      <<"jian4", "li4", "cang1", "wei4">>, <<"zeng1", "chi2">> }
\* sell_keywords
sell_keywords ==
    { <<"mai4", "chu1">>, <<"s", "e", "l", "l">>, <<"jian4", "yi4", "mai4", "chu1">>,
      <<"jian3", "cang1">>, <<"zhi3", "ying2">>, <<"li2", "chang3">>,
      <<"pao1", "shou4">> }
\* hold_keywords
hold_keywords ==
    { <<"chi2", "you3">>, <<"h", "o", "l", "d">>, <<"guan1", "wang4">>,
      <<"deng3", "dai4">>, <<"wei2", "chi2">>, <<"bao3", "chi2">> }

AnyIn(keywords, s) == \E keyword \in keywords : Contains(s, keyword)

parse_recommendation_buy_first(s) ==
    LET text_lower == Lower(s)
    IN  IF AnyIn(buy_keywords, text_lower) THEN "BUY"
        ELSE IF AnyIn(sell_keywords, text_lower) THEN "SELL"
        ELSE "HOLD"
\* _parse_recommendation: the sell keywords first, then buy, then hold, else HOLD
parse_recommendation(s) ==
    LET text_lower == Lower(s)
    IN  IF AnyIn(sell_keywords, text_lower) THEN "SELL"
        ELSE IF AnyIn(buy_keywords, text_lower) THEN "BUY"
        ELSE IF AnyIn(hold_keywords, text_lower) THEN "HOLD"
        ELSE "HOLD"

(* _parse_confidence.  A confidence is the exact fraction num / den.  The  *)
(* patterns are matched as re.search matches them: at the leftmost start   *)
(* where the pattern matches, \d+ and \s* taking all they can (a shorter   *)
(* run is followed by a digit or a space, which nothing after them in the  *)
(* pattern accepts, so backtracking finds no other match).                 *)

Digits == <<"0", "1", "2", "3", "4", "5", "6", "7", "8", "9">>
IsDigit(c) == \E i \in 1..10 : Digits[i] = c
DigitValue(c) == (CHOOSE i \in 1..10 : Digits[i] = c) - 1
\* \s
IsSpace(c) == c \in {" ", "tab", "newline"}

RECURSIVE DigitsEnd(_, _)
\* \d+ from position i: the position after the run of digits
DigitsEnd(s, i) == IF i <= Len(s) /\ IsDigit(s[i]) THEN DigitsEnd(s, i + 1) ELSE i

RECURSIVE SpacesEnd(_, _)
\* \s* from position i: the position after the run of spaces
SpacesEnd(s, i) == IF i <= Len(s) /\ IsSpace(s[i]) THEN SpacesEnd(s, i + 1) ELSE i

RECURSIVE DigitsNumber(_, _, _)
\* the number the digits s[i..j-1] spell
DigitsNumber(s, i, j) ==
    IF j <= i THEN 0 ELSE DigitsNumber(s, i, j - 1) * 10 + DigitValue(s[j - 1])

RECURSIVE Pow10(_)
Pow10(k) == IF k = 0 THEN 1 ELSE 10 * Pow10(k - 1)

\* (\d+(?:\.\d+)?) at position i and float(match.group(1)), as num / den
NumberAt(s, i) ==
    LET j == DigitsEnd(s, i)
        fraction == j < Len(s) /\ s[j] = "." /\ IsDigit(s[j + 1])
        k == IF fraction THEN DigitsEnd(s, j + 1) ELSE j
        places == IF fraction THEN k - j - 1 ELSE 0
    IN  [found |-> j > i,
         end |-> k,
         num |-> DigitsNumber(s, i, j) * Pow10(places)
                   + (IF fraction THEN DigitsNumber(s, j + 1, k) ELSE 0),
         den |-> Pow10(places)]

\* a literal of the pattern at position i, under re.IGNORECASE
LiteralAt(s, i, literal) ==
    /\ i + Len(literal) - 1 <= Len(s)
    /\ \A j \in 1..Len(literal) : LowerChar(s[i + j - 1]) = literal[j]

NoMatch == [found |-> FALSE, end |-> 0, num |-> 0, den |-> 1]

\* label[:：]\s*(\d+(?:\.\d+)?)\s*% at position i
LabelThenPercentage(s, i, label) ==
    LET c == i + Len(label)
    IN  IF LiteralAt(s, i, label) /\ c <= Len(s) /\ s[c] \in {":", "colon_fullwidth"}
        THEN LET n == NumberAt(s, SpacesEnd(s, c + 1))
                 b == SpacesEnd(s, n.end)
             IN  IF n.found /\ b <= Len(s) /\ s[b] = "%" THEN n ELSE NoMatch
        ELSE NoMatch

\* (\d+(?:\.\d+)?)\s*%\s*label at position i
PercentageThenLabel(s, i, label) ==
    LET n == NumberAt(s, i)
        b == SpacesEnd(s, n.end)
    IN  IF n.found /\ b <= Len(s) /\ s[b] = "%" /\ LiteralAt(s, SpacesEnd(s, b + 1), label)
        THEN n ELSE NoMatch

\* confidence_patterns, in order
confidence_patterns ==
    LET zh == <<"zhi4", "xin4", "du4">>
        en == <<"c", "o", "n", "f", "i", "d", "e", "n", "c", "e">>
    IN  << [label |-> zh, label_first |-> TRUE],
           [label |-> en, label_first |-> TRUE],
           [label |-> zh, label_first |-> FALSE],
           [label |-> en, label_first |-> FALSE] >>

MatchAt(pattern, s, i) ==
    IF pattern.label_first THEN LabelThenPercentage(s, i, pattern.label)
    ELSE PercentageThenLabel(s, i, pattern.label)

\* re.search(pattern, text, re.IGNORECASE): the leftmost match
Search(pattern, s) ==
    IF \E i \in 1..Len(s) : MatchAt(pattern, s, i).found
    THEN MatchAt(pattern, s,
                 CHOOSE i \in 1..Len(s) :
                    /\ MatchAt(pattern, s, i).found
                    /\ \A h \in 1..(i - 1) : ~MatchAt(pattern, s, h).found)
    ELSE NoMatch

CapNever(q) == [num |-> q.num, den |-> 100 * q.den]
\* min(confidence / 100.0, 1.0)
CapAtOne(q) ==
    IF q.num > 100 * q.den THEN [num |-> 1, den |-> 1]
    ELSE [num |-> q.num, den |-> 100 * q.den]

\* the words of the three any(...) tests
StrongWords ==
    { <<"qiang2", "lie4">>, <<"fei1", "chang2">>,
      <<"s", "t", "r", "o", "n", "g", "l", "y">>, <<"h", "i", "g", "h", "l", "y">> }
RecommendWords ==
    { <<"jian4", "yi4">>, <<"r", "e", "c", "o", "m", "m", "e", "n", "d">>,
      <<"ying1", "gai1">> }
MaybeWords ==
    { <<"ke3", "neng2">>, <<"m", "a", "y">>, <<"m", "i", "g", "h", "t">>,
      <<"huo4", "xu3">> }

\* the hedging words consulted before the strong ones
KeywordConfidenceHedgeFirst(s) ==
    LET text_lower == Lower(s)
    IN  IF AnyIn(MaybeWords, text_lower) THEN [num |-> 60, den |-> 100]
        ELSE IF AnyIn(StrongWords, text_lower) THEN [num |-> 85, den |-> 100]
        ELSE IF AnyIn(RecommendWords, text_lower) THEN [num |-> 75, den |-> 100]
        ELSE [num |-> 70, den |-> 100]

\* the confidence inferred from the words: 0.85, 0.75, 0.60, else 0.70
KeywordConfidence(s) ==
    LET text_lower == Lower(s)
    IN  IF AnyIn(StrongWords, text_lower) THEN [num |-> 85, den |-> 100]
        ELSE IF AnyIn(RecommendWords, text_lower) THEN [num |-> 75, den |-> 100]
        ELSE IF AnyIn(MaybeWords, text_lower) THEN [num |-> 60, den |-> 100]
        ELSE [num |-> 70, den |-> 100]

\* _parse_confidence
parse_confidence(s) ==
    IF \E k \in 1..Len(confidence_patterns) : Search(confidence_patterns[k], s).found
    THEN LET k == CHOOSE k \in 1..Len(confidence_patterns) :
                    /\ Search(confidence_patterns[k], s).found
                    /\ \A h \in 1..(k - 1) : ~Search(confidence_patterns[h], s).found
         IN  CapAtOne(Search(confidence_patterns[k], s))
    ELSE KeywordConfidence(s)

(* _extract_key_metrics and _format_steps.  A tool output is a sequence of  *)
(* characters like the final answer; the atom "pad490" stands for 490      *)
(* characters of text in which none of the patterns matches (news titles   *)
(* and summaries, a company description).                                  *)

\* the number of characters an atom stands for
Width(c) == IF c = "pad490" THEN 490 ELSE 1

\* the characters _format_steps keeps of an output
OutputLimit == 500

RECURSIVE Truncate(_, _)
\* s[:n]; "pad" is what is left of a filler that is cut
Truncate(s, n) ==
    IF s = <<>> \/ n <= 0 THEN <<>>
    ELSE IF Width(Head(s)) <= n
         THEN <<Head(s)>> \o Truncate(Tail(s), n - Width(Head(s)))
         ELSE <<"pad">>

\* the steps with their outputs kept whole
format_steps_whole(outs) ==
    [idx \in 1..Len(outs) |-> [step |-> idx, output |-> outs[idx]]]

\* _format_steps: "output": str(s.get("output", ""))[:500]
format_steps(outs) ==
    [idx \in 1..Len(outs) |-> [step |-> idx, output |-> Truncate(outs[idx], OutputLimit)]]

\* the phrases the extraction looks for in a tool output
Markers ==
    [rsi |-> <<"R", "S", "I", "(", "1", "4", ")", ":">>,
     golden_cross |-> <<"jin1", "cha1">>,
     bullish |-> <<"kan4", "zhang3">>,
     death_cross |-> <<"si3", "cha1">>,
     bearish |-> <<"kan4", "die1">>,
     positive |-> <<"zheng3", "ti3", "qing2", "gan3", ":", " ", "zheng4", "mian4">>,
     negative |-> <<"zheng3", "ti3", "qing2", "gan3", ":", " ", "fu4", "mian4">>]

\* a literal at position i, letter case respected
ExactAt(s, i, literal) ==
    /\ i + Len(literal) - 1 <= Len(s)
    /\ \A j \in 1..Len(literal) : s[i + j - 1] = literal[j]

\* RSI\(14\):\s*(\d+(?:\.\d+)?) at position i
RsiAt(s, i) ==
    IF ExactAt(s, i, Markers.rsi)
    THEN LET n == NumberAt(s, SpacesEnd(s, i + Len(Markers.rsi)))
         IN  IF n.found THEN n ELSE NoMatch
    ELSE NoMatch

\* re.search(r'RSI\(14\):\s*(\d+(?:\.\d+)?)', tool_output): the leftmost match
SearchRsi(s) ==
    IF \E i \in 1..Len(s) : RsiAt(s, i).found
    THEN RsiAt(s, CHOOSE i \in 1..Len(s) :
                     /\ RsiAt(s, i).found
                     /\ \A h \in 1..(i - 1) : ~RsiAt(s, h).found)
    ELSE NoMatch

\* "rsi": None
None == [num |-> 0, den |-> 0]

\* metrics = {"trend": "unknown", "rsi": None, "sentiment": "neutral", ...}
DefaultMetrics ==
    [trend |-> "unknown", rsi |-> None, sentiment |-> "neutral", has_position |-> FALSE]

\* the body of the loop over the steps, for one step
ExtractFromStep(metrics, tool_output) ==
    LET rsi_match == SearchRsi(tool_output)
    IN  [trend |-> IF Contains(tool_output, Markers.golden_cross) \/ Contains(tool_output, Markers.bullish)
                   THEN "bullish"
                   ELSE IF Contains(tool_output, Markers.death_cross) \/ Contains(tool_output, Markers.bearish)
                        THEN "bearish"
                        ELSE metrics.trend,
         rsi |-> IF rsi_match.found
                 THEN [num |-> rsi_match.num, den |-> rsi_match.den]
                 ELSE metrics.rsi,
         sentiment |-> IF Contains(tool_output, Markers.positive) THEN "positive"
                       ELSE IF Contains(tool_output, Markers.negative) THEN "negative"
                       ELSE metrics.sentiment,
         has_position |-> metrics.has_position]

RECURSIVE ExtractFrom(_, _)
\* the loop over the steps, first to last
ExtractFrom(metrics, formatted) ==
    IF formatted = <<>> THEN metrics
    ELSE ExtractFrom(ExtractFromStep(metrics, Head(formatted).output), Tail(formatted))

\* _extract_key_metrics
extract_key_metrics(formatted) == ExtractFrom(DefaultMetrics, formatted)

\* ResultParser.parse
parse(agent_result) ==
    [recommendation |-> parse_recommendation(agent_result.final_answer),
     confidence_score |-> parse_confidence(agent_result.final_answer),
     key_metrics |-> extract_key_metrics(agent_result.steps)]

(* The final answers the parser is given: up to MaxTokens pieces of text,  *)
(* joined without separator, so that a keyword or a number may also come   *)
(* about across two pieces.                                                *)

\* the most pieces of a final answer
MaxTokens == 3

Vocabulary ==
    { <<"S", "e", "l", "l">>,                                   \* Sell
      <<"B", "U", "Y">>,                                        \* BUY
      <<"h", "o", "l", "d", " ">>,                              \* hold
      <<"mai4", "chu1">>,                                       \* U+5356 U+51FA, sell
      <<"zeng1", "chi2">>,                                      \* U+589E U+6301, buy
      <<"you3">>,                                               \* U+6709
      <<"C", "o", "n", "f", "i", "d", "e", "n", "c", "e", ":", " ">>,
      <<"zhi4", "xin4", "du4", "colon_fullwidth">>,
      <<"2", "5", "0", "%">>,
      <<"8", "5">>,
      <<".", "5", "%", " ">>,
      <<" ", "c", "o", "n", "f", "i", "d", "e", "n", "c", "e">>,
      <<"s", "t", "r", "o", "n", "g", "l", "y">>,
      <<"m", "a", "y">>,
      <<"jian4", "yi4">>,                                       \* U+5EFA U+8BAE
      <<"x">> }

RECURSIVE Join(_)
\* "".join(pieces)
Join(pieces) == IF pieces = <<>> THEN <<>> ELSE Head(pieces) \o Join(Tail(pieces))

Texts == { Join(pieces) : pieces \in UNION { [1..n -> Vocabulary] : n \in 0..MaxTokens } }

InitParser ==
    /\ InitAgent /\ InitHistoryGhost /\ InitPipeIdle /\ InitServiceIdle
    /\ text \in Texts
    /\ outputs = <<>>
    /\ parsed = NotParsed

\* parsed = self.parser.parse(agent_result)
Parse ==
    /\ parsed = NotParsed
    /\ parsed' = parse([final_answer |-> text, steps |-> format_steps(outputs)])
    /\ UNCHANGED <<text, outputs, agentVars, appended, written, pipeVars, serviceVars>>

SpecParser == InitParser /\ [][Parse]_vars

(* The tool outputs of a run: up to MaxOutputs outputs, each made of two   *)
(* pieces of what the tools print, with or without filler before them.     *)
(* The run is analyze_stock("AAA", portfolio) with any of the portfolios.  *)

\* the most tool outputs of a run
MaxOutputs == 2

Pieces ==
    { <<>>,
      <<"pad490">>,
      Markers.rsi \o <<" ", "6", "5", ".", "4", "3">>,
      Markers.rsi \o <<" ", "2", "8", ".", "1", "0">>,
      Markers.golden_cross \o <<"(">> \o Markers.bullish \o <<")">>,
      Markers.death_cross \o <<"(">> \o Markers.bearish \o <<")">>,
      Markers.positive,
      Markers.negative }

ToolOutputs == { a \o b : a \in Pieces, b \in Pieces }

InitMetrics ==
    /\ InitAgent /\ InitHistoryGhost /\ InitServiceIdle
    /\ node = "none"
    /\ state = <<>>
    /\ nodeOutput = <<>>
    /\ portfolio \in Portfolios
    /\ keepsUndeclared = FALSE
    /\ executed = <<>>
    /\ failedStages = {}
    /\ result = <<>>
    /\ text = <<>>
    /\ outputs \in UNION { [1..n -> ToolOutputs] : n \in 0..MaxOutputs }
    /\ parsed = NotParsed

SpecMetrics == InitMetrics /\ [][Parse]_vars

-----------------------------------------------------------------------------
(* Claims about the parser *)

\* a phrase occurs in a text, letter case ignored
Occurs(phrase, s) ==
    \E i \in 1..Len(s) :
        /\ i + Len(phrase) - 1 <= Len(s)
        /\ \A j \in 1..Len(phrase) : LowerChar(s[i + j - 1]) = LowerChar(phrase[j])

SellPhrase(s) == \E phrase \in sell_keywords : Occurs(phrase, s)
BuyPhrase(s) == \E phrase \in buy_keywords : Occurs(phrase, s)
HoldPhrase(s) == \E phrase \in hold_keywords : Occurs(phrase, s)

\* C14: the recommendation parsed from a text is SELL if any sell-phrase
\* occurs in it, whatever else occurs; otherwise BUY if any buy-phrase occurs;
\* otherwise HOLD; letter case does not matter.
C14_ParserPriority ==
    parsed # NotParsed
      => /\ (SellPhrase(text) => parsed.recommendation = "SELL")
         /\ (~SellPhrase(text) /\ BuyPhrase(text) => parsed.recommendation = "BUY")
         /\ (~SellPhrase(text) /\ ~BuyPhrase(text) => parsed.recommendation = "HOLD")

\* "BUYSellhold ": a sell-phrase, a buy-phrase and a hold-phrase, in capitals
\* and small letters, parsed as SELL
C14_Witness ==
    /\ text = <<"B", "U", "Y", "S", "e", "l", "l", "h", "o", "l", "d", " ">>
    /\ parsed.recommendation = "SELL"

\* C15: the confidence parsed from a text is within [0, 1]; a percentage
\* above 100 next to a confidence label gives exactly 1.0.
C15_ConfidenceRange ==
    parsed # NotParsed
      => /\ parsed.confidence_score.den > 0
         /\ 0 <= parsed.confidence_score.num
         /\ parsed.confidence_score.num <= parsed.confidence_score.den
         /\ (text = <<"C", "o", "n", "f", "i", "d", "e", "n", "c", "e", ":", " ",
                      "2", "5", "0", "%">>
               => parsed.confidence_score.num = parsed.confidence_score.den)

\* "Confidence: 250%" was parsed
C15_Witness ==
    /\ text = <<"C", "o", "n", "f", "i", "d", "e", "n", "c", "e", ":", " ",
                "2", "5", "0", "%">>
    /\ parsed # NotParsed
    /\ parsed.confidence_score = [num |-> 1, den |-> 1]

\* a confidence equal to n hundredths
IsHundredths(q, n) == q.den > 0 /\ q.num * 100 = n * q.den

\* a percentage next to a confidence label occurs in the text
LabelledPercentage(s) ==
    \E k \in 1..Len(confidence_patterns) : Search(confidence_patterns[k], s).found

StrongPhrase(s) == \E phrase \in StrongWords : Occurs(phrase, s)
RecommendPhrase(s) == \E phrase \in RecommendWords : Occurs(phrase, s)
HedgePhrase(s) == \E phrase \in MaybeWords : Occurs(phrase, s)

\* C25: the words decide the confidence only when no percentage next to a
\* confidence label occurs: then strong words give 0.85, else recommending
\* words 0.75, else hedging words 0.60, else 0.70; with such a percentage the
\* confidence is that percentage (at most 1), whatever words occur.
C25_ConfidenceFallbackOrder ==
    parsed # NotParsed
      => LET q == parsed.confidence_score
         IN  /\ LabelledPercentage(text)
                   => \E k \in 1..Len(confidence_patterns) :
                         /\ Search(confidence_patterns[k], text).found
                         /\ q = CapAtOne(Search(confidence_patterns[k], text))
             /\ ~LabelledPercentage(text)
                   => /\ StrongPhrase(text) => IsHundredths(q, 85)
                      /\ ~StrongPhrase(text) /\ RecommendPhrase(text)
                            => IsHundredths(q, 75)
                      /\ ~StrongPhrase(text) /\ ~RecommendPhrase(text)
                            /\ HedgePhrase(text) => IsHundredths(q, 60)
                      /\ ~StrongPhrase(text) /\ ~RecommendPhrase(text)
                            /\ ~HedgePhrase(text) => IsHundredths(q, 70)

\* "maystrongly": a hedging word and a strong word, parsed as 0.85
C25_Witness ==
    /\ text = <<"m", "a", "y", "s", "t", "r", "o", "n", "g", "l", "y">>
    /\ parsed # NotParsed
    /\ IsHundredths(parsed.confidence_score, 85)

\* "strongly250% confidence": the percentage decides, not the strong word
C25_WitnessPercentage ==
    /\ text = <<"s", "t", "r", "o", "n", "g", "l", "y", "2", "5", "0", "%", " ",
                "c", "o", "n", "f", "i", "d", "e", "n", "c", "e">>
    /\ parsed # NotParsed
    /\ parsed.confidence_score = [num |-> 1, den |-> 1]

\* the tool results, by position, that hold a match for a metric
WithRsi == { i \in 1..Len(outputs) : SearchRsi(outputs[i]).found }
TrendsIn(out) ==
    (IF Contains(out, Markers.golden_cross) \/ Contains(out, Markers.bullish) THEN {"bullish"} ELSE {})
      \cup (IF Contains(out, Markers.death_cross) \/ Contains(out, Markers.bearish) THEN {"bearish"} ELSE {})
WithTrend == { i \in 1..Len(outputs) : TrendsIn(outputs[i]) # {} }
SentimentsIn(out) ==
    (IF Contains(out, Markers.positive) THEN {"positive"} ELSE {})
      \cup (IF Contains(out, Markers.negative) THEN {"negative"} ELSE {})
WithSentiment == { i \in 1..Len(outputs) : SentimentsIn(outputs[i]) # {} }
LastOf(S) == CHOOSE i \in S : \A j \in S : j <= i

\* C26: each of rsi, trend and sentiment comes from the last tool result
\* that holds a match for it, a later tool result without a match leaving the
\* earlier value; with no match at all rsi is absent, trend unknown and
\* sentiment neutral.
C26_LastSeenWins ==
    parsed # NotParsed
      => LET m == parsed.key_metrics
         IN  /\ IF WithRsi = {} THEN m.rsi = None
                ELSE LET r == SearchRsi(outputs[LastOf(WithRsi)])
                     IN  m.rsi = [num |-> r.num, den |-> r.den]
             /\ IF WithTrend = {} THEN m.trend = "unknown"
                ELSE m.trend \in TrendsIn(outputs[LastOf(WithTrend)])
             /\ IF WithSentiment = {} THEN m.sentiment = "neutral"
                ELSE m.sentiment \in SentimentsIn(outputs[LastOf(WithSentiment)])

\* the fields of AnalysisState but messages
StateFields ==
    {"symbol", "stock_data", "technical_data", "news_data", "portfolio_context",
     "analysis_result", "recommendation", "confidence_score", "portfolio"}

\* the fields a stage owns
OwnFields(name) ==
    CASE name = "data_collection" -> {"stock_data"}
      [] name = "technical_analysis" -> {"technical_data"}
      [] name = "news_sentiment_analysis" -> {"news_data"}
      [] name = "portfolio_analysis" -> {"portfolio_context"}
      [] name = "synthesize_recommendation" ->
            {"analysis_result", "recommendation", "confidence_score"}

\* C27: a stage changes only its own fields of the state and appends exactly
\* one entry to messages; symbol, the portfolio, the other stages' fields and
\* the earlier messages are as they were, whether the stage succeeded or its
\* failure was contained.
C27_StageFrame ==
    [][(node \in Nodes /\ executed' = Append(executed, node))
         => /\ \A f \in StateFields \ OwnFields(node) :
                  nodeOutput'[f] = state[f] /\ state'[f] = state[f]
            /\ Len(nodeOutput'.messages) = Len(state.messages) + 1
            /\ SubSeq(nodeOutput'.messages, 1, Len(state.messages)) = state.messages
            /\ state'.messages = nodeOutput'.messages
            /\ portfolio' = portfolio]_vars

\* all five stages ran, the portfolio stage failed and the synthesis wrote
\* its three fields
C27_Witness ==
    /\ Len(executed) = 5
    /\ "portfolio_analysis" \in failedStages
    /\ state.analysis_result.kind = "ok"
    /\ state.recommendation # ""
    /\ state.stock_data.kind = "ok"
    /\ Len(state.messages) = 6

\* C28: the average_score the news stage records, which the synthesis adds
\* into the total, is the mean of the scores of the items the stage
\* analysed (the first 10 of the feed at most), and 0 for an empty feed.
C28_SentimentMean ==
    [][\A feed \in Feeds :
          NewsSentimentAnalysis(FALSE, feed)
            => LET analysed == Min(Len(feed), 10)
                   average_score == state'.news_data.average_score
               IN  /\ analysed = 0 => average_score = 0
                   /\ analysed > 0
                         => average_score * analysed = SumScores(feed, analysed) * PerCent]_vars

\* the last n turns of a sequence of turns
LastTurns(msgs, n) == SubSeq(msgs, Max(1, Len(msgs) - n + 1), Len(msgs))

\* the places of a request's turns in a sequence of turns
TurnsBy(r, msgs) == { i \in 1..Len(msgs) : msgs[i].content[1] = r }

\* C29: no completed request's turns are lost.  Once every request has
\* completed, the stored history of a symbol is the last 50 turns of what
\* the requests wrote back, each request's turns together and the requests
\* in the order of their write-backs, whatever the interleaving was.
C29_NoLostTurns ==
    (\A r \in Requests : pc[r] # "llm")
      => \A s \in Symbols :
            /\ histories[s] = LastTurns(written[s], 50)
            /\ \A r \in Requests :
                  LET own == TurnsBy(r, written[s])
                  IN  /\ \A i \in own : i + 1 \in own \/ \A j \in own : j <= i
                      /\ pc[r] = "done" /\ sym[r] = s
                            => /\ own # {}
                               /\ \E i \in own :
                                     /\ written[s][i] = HumanMessage(r, 0)
                                     /\ \A j \in own : i <= j
                               /\ \E i \in own :
                                     /\ written[s][i] = AIMessage(final[r], <<>>)
                                     /\ \A j \in own : j <= i

\* a chat that read the empty history of "AAA", ran while an analysis of
\* "AAA" ran, and wrote back after it: both requests' turns are stored
C29_Witness ==
    /\ pc = [r \in Requests |-> "done"]
    /\ sym = [r \in Requests |-> "AAA"]
    /\ kind["r1"] = "analyze" /\ kind["r2"] = "chat"
    /\ nhist["r2"] = 0
    /\ llmCalls["r1"] = 2
    /\ Len(histories["AAA"]) = 6
    /\ histories["AAA"][1] = HumanMessage("r1", 0)
    /\ histories["AAA"][5] = HumanMessage("r2", 0)
    /\ histories["AAA"][6] = AIMessage(final["r2"], <<>>)

\* C30: every stored history is a well-formed transcript: each tool result
\* in it is preceded, within the stored history, by the assistant turn that
\* requested it, so no orphaned tool result stands at its head.
C30_StoredHistoryWellFormed ==
    \A s \in Symbols :
        \A p \in 1..Len(histories[s]) :
            histories[s][p].role = "tool"
              => \E i \in 1..(p - 1) :
                    /\ histories[s][i].role = "ai"
                    /\ histories[s][i].content[1] = histories[s][p].content[1]
                    /\ \E j \in 1..Len(histories[s][i].tool_calls) :
                          histories[s][i].tool_calls[j].id = histories[s][p].tool_call_id

\* C31: when the technical stage completes without an RSI value, the trend
\* is not bearish and the technical score is 0, so that with a neutral
\* sentiment and no portfolio signal the recommendation is not SELL.
C31_MissingRsiNotBearish ==
    [][/\ TechnicalAnalysis(FALSE, <<>>)
            => /\ state'.technical_data.trend # "bearish"
               /\ TechScore(state') = 0
       /\ (/\ Return
           /\ state.technical_data.kind = "ok"
           /\ state.technical_data.rsi = NoRsi
           /\ SentimentScore(state) = 0
           /\ PortfolioScore(state) = 0)
            => result'.recommendation # "SELL"]_vars

\* C32: the rsi the technical stage uses for trend and strength is the value
\* at the most recent date of the series, for every non-empty series.
C32_LatestIndicatorValue ==
    [][\A series \in RsiSeries \ {<<>>} :
          TechnicalAnalysis(FALSE, series)
            => /\ state'.technical_data.rsi = series[Len(series)]
               /\ state'.technical_data.trend = Trend(series[Len(series)])
               /\ state'.technical_data.strength = Strength(series[Len(series)])]_vars

\* C33: in a result of the agentic strategy key_metrics.has_position is true
\* exactly when the supplied portfolio holds a position in the analysed
\* symbol.
C33_HasPositionAgentic ==
    parsed # NotParsed
      => (parsed.key_metrics.has_position <=> Holds(portfolio, "AAA"))

\* C34: the turns a completed request adds to its symbol's history, before
\* the cap.  A chat adds exactly two: its question and its final answer,
\* none of its tool-call or tool-result turns.  An analysis adds its whole
\* transcript (the seed question, every assistant tool-call turn and every
\* tool result) followed by one final answer turn.
C34_TurnsAdded ==
    [][\A r \in Requests :
          (pc[r] = "llm" /\ pc'[r] = "done")
            => LET s == sym[r]
                   added == SubSeq(written'[s], Len(written[s]) + 1, Len(written'[s]))
                   answer == AIMessage(final'[r], <<>>)
                   n == IF kind[r] = "analyze" THEN Len(messages[r]) ELSE 0
                   rest == SubSeq(added, n + 1, Len(added))
               IN  /\ SubSeq(written'[s], 1, Len(written[s])) = written[s]
                   /\ histories'[s] = LastTurns(histories[s] \o added, 50)
                   /\ kind[r] = "chat" => added = <<HumanMessage(r, 0), answer>>
                   /\ kind[r] = "analyze"
                         => /\ Len(added) > n
                            /\ SubSeq(added, 1, n) = messages[r]
                            /\ added[1] = HumanMessage(r, 0)
                            /\ rest[Len(rest)] = answer
                            /\ \/ Len(rest) = 1
                               \/ /\ rest[1].role = "ai"
                                  /\ Len(rest[1].tool_calls) = Len(rest) - 2
                                  /\ \A i \in 2..(Len(rest) - 1) :
                                        rest[i].role = "tool"]_vars

\* an analysis and a chat of "AAA" both called tools and completed: the
\* history holds the analysis' four turns and two turns of the chat
C34_Witness ==
    /\ pc = [r \in Requests |-> "done"]
    /\ sym = [r \in Requests |-> "AAA"]
    /\ kind["r1"] = "analyze" /\ kind["r2"] = "chat"
    /\ llmCalls["r1"] = 2 /\ llmCalls["r2"] = 2
    /\ toolExecs["r2"] > 0
    /\ Len(histories["AAA"]) = 6
    /\ histories["AAA"][3].role = "tool"
    /\ histories["AAA"][5] = HumanMessage("r2", 0)
    /\ histories["AAA"][6] = AIMessage(final["r2"], <<>>)

-----------------------------------------------------------------------------
(* main: the choice of the orchestrator when the module is loaded, and the *)
(* routes POST /api/analysis/{symbol} and POST /api/chat/{symbol}.         *)

\* how many requests the process answers
MaxRequests == 3

ActiveAgentPipelineFirst(e) ==
    IF e.langgraph THEN "langgraph" ELSE IF e.react THEN "react" ELSE "none"
\* ACTIVE_AGENT after the nested try/except of the imports
ActiveAgent(e) ==
    IF e.react THEN "react" ELSE IF e.langgraph THEN "langgraph" ELSE "none"

\* the modules whose import, and so whose constructor, was run
Attempted(e) == IF e.react THEN <<"react">> ELSE <<"react", "langgraph">>

InitService ==
    /\ InitAgent /\ InitHistoryGhost /\ InitPipeIdle /\ InitParserIdle
    /\ env \in [react : BOOLEAN, langgraph : BOOLEAN]
    /\ active = "unset"
    /\ attempted = <<>>
    /\ served = <<>>
    /\ InitQuoteIdle

\* lines 10-26 of main, run once when the process starts
Startup ==
    /\ active = "unset"
    /\ active' = ActiveAgent(env)
    /\ attempted' = Attempted(env)
    /\ UNCHANGED <<env, served, quoteVars, agentVars, appended, written, pipeVars, parserVars>>

\* `except Exception as e: raise HTTPException(status_code=500, ...)`: what the
\* handler of a route makes of an exception raised in its try block, an
\* HTTPException included
ExceptException(raised_status) == 500

\* the status a route answers with: `raises` is the status of the
\* HTTPException raised in the try block, or of the error any other exception
\* would be (500), or 0 when the try block returns
RouteStatus(raises) == IF raises = 0 THEN 200 ELSE ExceptException(raises)

Answer(route, invoked, what, raises) ==
    /\ active # "unset"
    /\ Len(served) < MaxRequests
    /\ served' = Append(served,
                        [route |-> route, invoked |-> invoked, what |-> what,
                         status |-> RouteStatus(raises)])
    /\ UNCHANGED <<env, active, attempted, quoteVars, agentVars, appended, written, pipeVars,
                   parserVars>>

\* analyze_stock of main: 503 when there is no agent; else the agent's
\* analyze_stock, whose error record is raised as 500
AnalyzeRoute(outcome) ==
    IF active = "none"
    THEN Answer("analyze", FALSE, "unavailable", 503)
    ELSE Answer("analyze", TRUE, outcome, IF outcome = "error" THEN 500 ELSE 0)

\* a chat route that takes every agent to have answer_question
ChatRouteAnyAgent(outcome) ==
    IF active = "none"
    THEN Answer("chat", FALSE, "unavailable", 503)
    ELSE Answer("chat", TRUE, outcome, IF outcome = "error" THEN 500 ELSE 0)

\* chat_with_agent: 503 when there is no agent; else the agent's
\* answer_question, which the agent of langgraph_service does not have
ChatRoute(outcome) ==
    IF active = "none"
    THEN Answer("chat", FALSE, "unavailable", 503)
    ELSE IF active = "langgraph"
    THEN Answer("chat", FALSE, "no_answer_question", 500)
    ELSE Answer("chat", TRUE, outcome, IF outcome = "error" THEN 500 ELSE 0)

\* what the agent's coroutine returns: a result or an error record
Outcomes == {"ok", "error"}

NextService ==
    \/ Startup
    \/ \E outcome \in Outcomes : AnalyzeRoute(outcome)
    \/ \E outcome \in Outcomes : ChatRoute(outcome)

SpecService == InitService /\ [][NextService]_vars

-----------------------------------------------------------------------------
(* Claims about the choice of the strategy *)

\* C16: the strategy is chosen once, at start: Agentic whenever the Agentic
\* orchestrator can be constructed, and then the Pipeline is not attempted;
\* Pipeline exactly when Agentic cannot and Pipeline can; Unavailable exactly
\* when neither can.  No request, failing ones included, changes it.
C16_StrategySelection ==
    /\ [](active # "unset"
            => /\ (env.react => active = "react" /\ attempted = <<"react">>)
               /\ (active = "langgraph" <=> (~env.react /\ env.langgraph))
               /\ (active = "none" <=> (~env.react /\ ~env.langgraph))
               /\ (~env.react => attempted = <<"react", "langgraph">>))
    /\ [][active # "unset" => (active' = active /\ attempted' = attempted)]_vars

\* the Pipeline was chosen after the Agentic construction failed, and it has
\* answered a request that failed and one that did not
C16_Witness ==
    /\ active = "langgraph"
    /\ \E i, j \in 1..Len(served) : served[i].status = 500 /\ served[j].status = 200

\* C17: with no orchestrator, every analyze and every chat request is answered
\* with status 503, not the 500 of a run-level failure, and no orchestrator
\* is invoked.
C17_Unavailable503 ==
    active = "none"
      => \A i \in 1..Len(served) : served[i].status = 503 /\ ~served[i].invoked

\* C35: when the Pipeline is the active strategy every chat request ends
\* with an error, never with an answer, and the orchestrator's chat is not
\* run; analyze requests are still handed to the orchestrator and can succeed.
C35_PipelineHasNoChat ==
    active = "langgraph"
      => \A i \in 1..Len(served) :
            /\ served[i].route = "chat"
                  => /\ served[i].status \in {500, 503}
                     /\ served[i].what # "ok"
                     /\ ~served[i].invoked
            /\ served[i].route = "analyze"
                  => /\ served[i].invoked
                     /\ served[i].what = "ok" => served[i].status = 200

\* the Pipeline has answered a chat with an error and served an analysis
C35_Witness ==
    /\ active = "langgraph"
    /\ ~env.react
    /\ \E i, j \in 1..Len(served) :
          /\ served[i].route = "chat" /\ served[i].status = 500
          /\ served[j].route = "analyze" /\ served[j].status = 200

-----------------------------------------------------------------------------
(* More claims about the tool loop *)

\* C18: a request that fails at run level, in whatever iteration and after
\* whatever tool results, returns the error record, and none of its steps
\* changes the history of any symbol: a history changes only in the step in
\* which a request for that symbol completes without error.
C18_RunFailureLeavesHistory ==
    /\ [](\A r \in Requests : raised[r] => pc[r] = "error" /\ response[r] = "error")
    /\ [][\A r \in Requests :
            (pc[r] # "error" /\ pc'[r] = "error") => histories' = histories]_vars
    /\ [][\A s \in Symbols :
            histories'[s] # histories[s]
              => \E r \in Requests :
                    /\ pc[r] = "llm" /\ pc'[r] = "done"
                    /\ sym[r] = s /\ ~raised'[r] /\ response'[r] = "ok"]_vars

\* a chat failed in its third reasoning call, tool results gathered, on a
\* symbol that has a history
C18_Witness ==
    \E r \in Requests :
        /\ pc[r] = "error" /\ kind[r] = "chat"
        /\ llmCalls[r] = 3 /\ toolExecs[r] > 0
        /\ histories[sym[r]] # <<>>

\* C19: a result analyze returns without an error field has its
\* recommendation in {BUY, SELL, HOLD} and its confidence_score in [0, 1],
\* whatever stages failed.
C19_ResultInvariants ==
    (node = "returned" /\ ~result.error)
      => /\ result.recommendation \in {"BUY", "SELL", "HOLD"}
         /\ 0 <= result.confidence_score
         /\ result.confidence_score <= One

\* the turns a request added to its transcript: the question and what follows
OwnTurns(r) == SubSeq(messages[r], nhist[r] + 1, Len(messages[r]))

\* the invocations requested in a transcript: <<turn, place in the turn>>
Invocations(msgs) ==
    { c \in (1..Len(msgs)) \X (1..MaxToolCalls) :
        msgs[c[1]].role = "ai" /\ c[2] <= Len(msgs[c[1]].tool_calls) }

\* C20: an invocation of a name that is not in the registry executes nothing
\* and is answered by a tool-result turn with the unknown-tool text and the
\* invocation's call id; the other invocations of the turn are processed, and
\* the loop goes on to its next reasoning call instead of failing.
C20_UnknownTool ==
    \A r \in Requests :
        /\ (pc[r] = "error" => raised[r])
        /\ pc[r] = "llm"
             => LET own == OwnTurns(r)
                IN  /\ \A c \in Invocations(own) :
                          LET call == own[c[1]].tool_calls[c[2]]
                              answer == own[c[1] + c[2]]
                          IN  /\ answer.role = "tool"
                              /\ answer.tool_call_id = call.id
                              /\ (answer.content[3] = "unknown_tool"
                                    <=> call.name \notin ToolRegistry)
                    /\ toolExecs[r]
                         = Cardinality({c \in Invocations(own) :
                                          own[c[1]].tool_calls[c[2]].name \in ToolRegistry})
                    /\ Len(steps[r]) = Cardinality(Invocations(own))
                    /\ llmCalls[r]
                         = 1 + Cardinality({i \in 1..Len(own) : own[i].role = "ai"})

\* a turn asked for an unregistered name among others, and the request is
\* waiting for a later reasoning call
C20_Witness ==
    \E r \in Requests :
        /\ pc[r] = "llm" /\ llmCalls[r] = 3
        /\ \E i \in 1..Len(messages[r]) : messages[r][i].content[3] = "unknown_tool"
        /\ \E i \in 1..Len(messages[r]) : messages[r][i].content[3] = "report"
        /\ toolExecs[r] > 0

\* C21: when the execution of a registered tool fails, the invocation is
\* answered by a tool-result turn carrying the error text, the other
\* invocations of the turn are answered as usual, the loop goes on to its next
\* reasoning call (or ends normally at the sixth), and the request does not
\* become a run-level error.
C21_ToolFailureContained ==
    [][\A r \in Requests : \A reply \in Replies :
         (/\ LLMReply(r, reply)
          /\ \E i \in 1..Len(reply) : reply[i].fails /\ reply[i].name \in ToolRegistry)
           => LET n == llmCalls[r]
                  base == Len(messages[r])
              IN  /\ ~raised'[r]
                  /\ pc'[r] \in {"llm", "done"}
                  /\ toolExecs'[r] > toolExecs[r]
                  /\ (pc'[r] = "done" => n = 6 /\ response'[r] = "ok")
                  /\ (pc'[r] = "llm"
                        => /\ llmCalls'[r] = n + 1
                           /\ Len(messages'[r]) = base + 1 + Len(reply)
                           /\ \A i \in 1..Len(reply) :
                                 LET answer == messages'[r][base + 1 + i]
                                 IN  /\ answer.role = "tool"
                                     /\ answer.tool_call_id = CallId(n, i)
                                     /\ (reply[i].name \in ToolRegistry
                                           => answer.content[3]
                                                = (IF reply[i].fails THEN "tool_failed"
                                                   ELSE "report")))]_vars

\* a tool failed in an earlier turn and the request went on, to a final answer
C21_Witness ==
    \E r \in Requests :
        /\ pc[r] = "done" /\ response[r] = "ok"
        /\ kind[r] = "analyze" /\ llmCalls[r] = 3
        /\ \E i \in 1..Len(histories[sym[r]]) :
              histories[sym[r]][i].content[3] = "tool_failed"

C23_AnalysisIgnoresHistory ==
    \A r \in Requests :
        /\ (kind[r] = "analyze" => nhist[r] = 0)
        /\ (pc[r] = "llm"
              => /\ Len(messages[r]) > nhist[r]
                 /\ messages[r][nhist[r] + 1] = HumanMessage(r, 0)
                 /\ \A i \in (nhist[r] + 1)..Len(messages[r]) :
                       /\ messages[r][i].content[1] = r
                       /\ (i > nhist[r] + 1 => messages[r][i].role # "human")
                 /\ \A i \in 1..nhist[r] : messages[r][i].content[1] # r)
        /\ (pc[r] = "done" => final[r] = Content(r, llmCalls[r]))

\* an analysis is in its second reasoning call for a symbol that has a
\* stored history
C23_Witness ==
    \E r \in Requests :
        /\ kind[r] = "analyze" /\ pc[r] = "llm" /\ llmCalls[r] = 2
        /\ histories[sym[r]] # <<>>

-----------------------------------------------------------------------------
(* main: AlphaVantageService.get_quote *)

\* the trading days of the daily series, as day numbers (the keys are ISO
\* dates, whose order as strings is their order in time), and its closes
\* "Global Quote": the request failed, the object is empty, or it has a price
Primaries ==
    {Failed, Nothing} \cup {[kind |-> "quote", price |-> p, days |-> <<>>] : p \in {100, 110}}

\* "Time Series (Daily)": the request failed, or a mapping (maybe empty) from
\* day to {"4. close", "5. volume"}
Fallbacks ==
    {Failed}
    \cup { [kind |-> "series", price |-> 0, days |-> h] :
             h \in UNION { [D -> [close : {95, 105}, volume : {1000}]] :
                              D \in SUBSET {1, 2, 3} } }

\* the default StockQuote of the outer except
Placeholder(symbol) ==
    [symbol |-> symbol, price |-> 0, change |-> 0, change_percent |-> 0, volume |-> 0]

oldest_date(hist) == CHOOSE d \in DOMAIN hist : \A e \in DOMAIN hist : d <= e
\* latest_date = sorted(hist.keys())[-1]
latest_date(hist) == CHOOSE d \in DOMAIN hist : \A e \in DOMAIN hist : e <= d

\* get_quote
get_quote(symbol, sources) ==
    IF sources.primary.kind = "failed"
    THEN Placeholder(symbol)
    ELSE IF sources.primary.kind = "empty"
    THEN IF sources.fallback.kind # "failed" /\ DOMAIN sources.fallback.days # {}
         THEN LET latest == sources.fallback.days[latest_date(sources.fallback.days)]
              IN  [symbol |-> symbol, price |-> latest.close, change |-> 0,
                   change_percent |-> 0, volume |-> latest.volume]
         ELSE [symbol |-> symbol, price |-> 0, change |-> 0, change_percent |-> 0,
               volume |-> 0]
    ELSE [symbol |-> symbol, price |-> sources.primary.price, change |-> 0,
          change_percent |-> 0, volume |-> 0]

InitQuote ==
    /\ InitAgent /\ InitHistoryGhost /\ InitPipeIdle /\ InitParserIdle
    /\ env = [react |-> TRUE, langgraph |-> TRUE]
    /\ active = "unset"
    /\ attempted = <<>>
    /\ served = <<>>
    /\ quoteSources \in [primary : Primaries, fallback : Fallbacks]
    /\ quoted = NotQuoted

\* GET /api/stocks/{symbol}/quote
GetQuote ==
    /\ quoted = NotQuoted
    /\ quoted' = get_quote("AAA", quoteSources)
    /\ UNCHANGED <<quoteSources, env, active, attempted, served, agentVars, appended, written,
                   pipeVars, parserVars>>

SpecQuote == InitQuote /\ [][GetQuote]_vars

\* C24: get_quote always returns a quote: the price of the primary quote when
\* there is one; the close of the most recent day of the daily series when the
\* primary is empty and the series is not; the zero-valued placeholder when
\* both are empty or a fetch failed.
C24_QuoteFallback ==
    quoted # NotQuoted
      => LET primary == quoteSources.primary
             fallback == quoteSources.fallback
             series == fallback.kind = "series" /\ DOMAIN fallback.days # {}
         IN  /\ quoted.symbol = "AAA"
             /\ (primary.kind = "quote" => quoted.price = primary.price)
             /\ (primary.kind = "empty" /\ series
                   => /\ \E d \in DOMAIN fallback.days :
                            /\ \A e \in DOMAIN fallback.days : e <= d
                            /\ quoted.price = fallback.days[d].close
                            /\ quoted.volume = fallback.days[d].volume
                      /\ quoted.change = 0)
             /\ (primary.kind = "failed" \/ (primary.kind = "empty" /\ ~series)
                   => quoted = Placeholder("AAA"))

\* the primary was empty and the series had three days, the latest closing
\* at 105 after two closes at 95
C24_Witness ==
    /\ quoteSources.primary = Nothing
    /\ quoteSources.fallback.kind = "series"
    /\ DOMAIN quoteSources.fallback.days = {1, 2, 3}
    /\ quoteSources.fallback.days[1].close = 95
    /\ quoteSources.fallback.days[2].close = 95
    /\ quoted.price = 105

====
